---- MODULE Spec2Model ----
(***************************************************************************)
(* Daily Expense Tracker (src/script.js): the session-only expense list,   *)
(* its validator, its derived views (total, sorted list) and the event     *)
(* handlers that mutate it (form submit, deleteExpense, clearAll).         *)
(*                                                                         *)
(* Time is counted in clock units; one calendar day is UnitsPerDay units.  *)
(* Date.now() and new Date() read the variable now (UTC); the browser's    *)
(* local time is now + tz.  Amounts are JavaScript numbers, modelled as    *)
(* NaN, +Infinity, -Infinity or a finite number of cents.  Strings are     *)
(* sequences of one-character strings.                                     *)
(***************************************************************************)
EXTENDS Integers, Sequences, FiniteSets, TLC

VARIABLES
    expenses,      \* let expenses = []  (script.js:35), in insertion order
    now,           \* the system clock, UTC, in clock units
    tz,            \* the browser's timezone offset (local = UTC + tz), fixed
    totalAmount,   \* totalAmount.textContent, as written by updateTotalDisplay
    expenseList,   \* expenseList.innerHTML: the rendered items, top to bottom
    notification,  \* the message of the last showNotification call
    lastEvent      \* the last event handled and the inputs it was given

vars == <<expenses, now, tz, totalAmount, expenseList, notification, lastEvent>>

----------------------------------------------------------------------------
(* Bounds of the model *)

\* the ledger specification stops adding at this many records
MaxExpenses == 2
\* the clock advances at most this many units after the page is loaded
MaxTicks == 1
\* clock units per calendar day
UnitsPerDay == 2

\* timezone offsets, in clock units (west of UTC is negative)
TzOffsets == {-1, 0, 1}

----------------------------------------------------------------------------
(* JavaScript numbers *)

NaN == [kind |-> "NaN", cents |-> 0]
PosInfinity == [kind |-> "Infinity", cents |-> 0]
NegInfinity == [kind |-> "-Infinity", cents |-> 0]
Fin(c) == [kind |-> "finite", cents |-> c]

isNaN(x) == x.kind = "NaN"

\* x <= 0 (false for NaN)
LeqZero(x) == \/ x.kind = "-Infinity"
              \/ x.kind = "finite" /\ x.cents <= 0

\* x > c cents (false for NaN)
GreaterThanCents(x, c) == \/ x.kind = "Infinity"
                          \/ x.kind = "finite" /\ x.cents > c

\* x + y
Plus(x, y) ==
    IF x.kind = "finite" /\ y.kind = "finite" THEN Fin(x.cents + y.cents)
    ELSE IF x.kind = "NaN" \/ y.kind = "NaN" THEN NaN
    ELSE IF x.kind = "finite" THEN y
    ELSE IF y.kind = "finite" THEN x
    ELSE IF x.kind = y.kind THEN x
    ELSE NaN

\* `$${x.toFixed(2)}`: sign, whole dollars, two digits of cents
toFixed2(x) ==
    IF x.kind # "finite" THEN <<x.kind, 0, 0>>
    ELSE IF x.cents < 0 THEN <<"-", (-x.cents) \div 100, (-x.cents) % 100>>
    ELSE <<"", x.cents \div 100, x.cents % 100>>

----------------------------------------------------------------------------
(* Strings *)

Rep(c, n) == [i \in 1..n |-> c]

IsSpace(c) == c = " "

RECURSIVE trimStart(_)
trimStart(s) ==
    IF s # <<>> /\ IsSpace(Head(s)) THEN trimStart(Tail(s)) ELSE s

RECURSIVE trimEnd(_)
trimEnd(s) ==
    IF s # <<>> /\ IsSpace(s[Len(s)]) THEN trimEnd(SubSeq(s, 1, Len(s) - 1)) ELSE s

\* String.prototype.trim
trim(s) == trimEnd(trimStart(s))

----------------------------------------------------------------------------
(* Dates.  A date string "YYYY-MM-DD" is its day number; "" is NoDate. *)

NoDate == -1

\* new Date("YYYY-MM-DD"): a date-only string is parsed as UTC midnight
parseDateUTC(date) == date * UnitsPerDay

\* new Date("YYYY-MM-DDT00:00:00"): no offset, so local midnight
parseDateLocal(date, z) == date * UnitsPerDay - z

\* the local calendar day of instant t
localDay(t, z) == (t + z) \div UnitsPerDay

\* d = new Date(t); d.setHours(0, 0, 0, 0): local midnight of t's local day
localMidnight(t, z) == localDay(t, z) * UnitsPerDay - z

\* d.setDate(d.getDate() + n), for d at local midnight
addDays(t, n) == t + n * UnitsPerDay

\* new Date().toISOString(): date part and time-of-day part, in UTC
toISOString(t) == <<t \div UnitsPerDay, t % UnitsPerDay>>

\* new Date(isoString)
parseISO(s) == s[1] * UnitsPerDay + s[2]

----------------------------------------------------------------------------
(* Core functions *)

MaxDescriptionLength == 100
MaxAmountCents == 99999999

\* validateExpense with its two limits compared by >= instead of >
validateExpenseOffByOne(description, amount, date, t, z) ==
    LET selectedDate == parseDateUTC(date)
        tomorrow == localMidnight(addDays(t, 1), z)
    IN  IF Len(description) = 0 THEN "Please enter a description"
        ELSE IF Len(description) >= MaxDescriptionLength
            THEN "Description too long (max 100 characters)"
        ELSE IF isNaN(amount) \/ LeqZero(amount)
            THEN "Please enter a valid amount greater than 0"
        ELSE IF GreaterThanCents(amount, MaxAmountCents - 1) THEN "Amount is too large"
        ELSE IF date = NoDate THEN "Please select a date"
        ELSE IF selectedDate >= tomorrow THEN "Date cannot be in the future"
        ELSE "Validation passed"

\* The notification validateExpense shows before it returns false, or
\* "Validation passed" when it returns true.  description is the trimmed
\* field, amount the parseFloat of the amount field, t the clock.
validateExpense(description, amount, date, t, z) ==
    LET selectedDate == parseDateUTC(date)
        tomorrow == localMidnight(addDays(t, 1), z)
    IN  IF Len(description) = 0 THEN "Please enter a description"
        ELSE IF Len(description) > MaxDescriptionLength
            THEN "Description too long (max 100 characters)"
        ELSE IF isNaN(amount) \/ LeqZero(amount)
            THEN "Please enter a valid amount greater than 0"
        ELSE IF GreaterThanCents(amount, MaxAmountCents) THEN "Amount is too large"
        ELSE IF date = NoDate THEN "Please select a date"
        ELSE IF selectedDate >= tomorrow THEN "Date cannot be in the future"
        ELSE "Validation passed"

\* formatDate(dateString) at clock t: "Today", "Yesterday", or the date
\* written out by toLocaleDateString
formatDate(date, t, z) ==
    LET today == localMidnight(t, z)
        yesterday == addDays(today, -1)
        expenseDate == parseDateLocal(date, z)
    IN  IF expenseDate = today THEN [label |-> "Today", day |-> date]
        ELSE IF expenseDate = yesterday THEN [label |-> "Yesterday", day |-> date]
        ELSE [label |-> "Date", day |-> date]

\* expenses.reduce((total, expense) => total + expense.amount, 0)
RECURSIVE reduceTotal(_, _)
reduceTotal(exps, total) ==
    IF exps = <<>> THEN total
    ELSE reduceTotal(Tail(exps), Plus(total, Head(exps).amount))

\* reduce called without its initial value: the first record is taken as the
\* accumulator and its amount is never added
calculateTotalNoInitialValue(exps) ==
    IF exps = <<>> THEN Fin(0) ELSE reduceTotal(Tail(exps), Fin(0))

calculateTotal(exps) == reduceTotal(exps, Fin(0))

\* the comparator of displayExpensesList: negative when a sorts before b
compareExpenses(a, b) ==
    LET dateComparison == parseDateUTC(b.date) - parseDateUTC(a.date)
    IN  IF dateComparison # 0 THEN dateComparison
        ELSE parseISO(b.timestamp) - parseISO(a.timestamp)

\* e put into the sorted sequence s, after every element it does not
\* strictly precede
RECURSIVE insertSorted(_, _)
insertSorted(s, e) ==
    IF s = <<>> THEN <<e>>
    ELSE IF compareExpenses(Head(s), e) > 0 THEN <<e>> \o s
    ELSE <<Head(s)>> \o insertSorted(Tail(s), e)

\* [...exps].sort(compareExpenses): Array.prototype.sort is stable
RECURSIVE sortInto(_, _)
sortInto(sorted, rest) ==
    IF rest = <<>> THEN sorted
    ELSE sortInto(insertSorted(sorted, Head(rest)), Tail(rest))

sortedExpenses(exps) == sortInto(<<>>, exps)

\* displayExpensesList written as expenses.sort(...), without the copy: the
\* sort reorders the array itself
expensesAfterDisplayInPlace(exps) == sortedExpenses(exps)

\* the expenses array once displayExpensesList has run: sort is called on the
\* copy [...expenses], so the array keeps its records in insertion order
expensesAfterDisplay(exps) == exps

\* the item createExpenseHTML renders for one expense at clock t
createExpenseHTML(expense, t, z) ==
    [id |-> expense.id,
     description |-> expense.description,
     amount |-> toFixed2(expense.amount),
     date |-> formatDate(expense.date, t, z)]

\* the items displayExpensesList writes to the list (none: the empty state)
displayExpensesList(exps, t, z) ==
    LET sorted == sortedExpenses(exps)
    IN  [i \in 1..Len(sorted) |-> createExpenseHTML(sorted[i], t, z)]

\* the text updateTotalDisplay writes to the total
updateTotalDisplay(exps) == toFixed2(calculateTotal(exps))

\* updateDisplay that refreshes the total and forgets the list
updateDisplayTotalOnly ==
    /\ totalAmount' = updateTotalDisplay(expenses')
    /\ expenseList' = expenseList

\* updateDisplay(), run after expenses and the clock took their new values
updateDisplay ==
    /\ totalAmount' = updateTotalDisplay(expenses')
    /\ expenseList' = displayExpensesList(expenses', now', tz')

----------------------------------------------------------------------------
(* Event handlers.  Each runs to completion before the next event. *)

\* lastEvent after the page is loaded.  op is the handler that ran last, id
\* and confirmed what it was given, before the length of expenses when it
\* started.
NoEvent == [op |-> "load", id |-> 0, confirmed |-> FALSE, before |-> 0]

\* the object the submit handler builds: the id is read from the clock at t,
\* the timestamp (and formatDate's today) from the clock at t2 >= t
newExpense(description, amount, date, t, t2, z) ==
    [id |-> t,
     description |-> description,
     amount |-> amount,
     date |-> date,
     timestamp |-> toISOString(t2),
     displayDate |-> formatDate(date, t2, z)]

\* expenseForm 'submit': the fields hold rawDescription, a text that
\* parseFloat reads as amount, and date; the clock advances by adv while the
\* handler builds the record
Submit(rawDescription, amount, date, adv) ==
    LET description == trim(rawDescription)
        verdict == validateExpense(description, amount, date, now, tz)
        event == [op |-> "submit", id |-> 0, confirmed |-> FALSE,
                  before |-> Len(expenses)]
    IN  /\ lastEvent' = event
        /\ tz' = tz
        /\ IF verdict # "Validation passed"
           THEN /\ notification' = verdict
                /\ UNCHANGED <<expenses, now, totalAmount, expenseList>>
           ELSE /\ expenses' = expensesAfterDisplay(Append(expenses,
                       newExpense(description, amount, date, now, now + adv, tz)))
                /\ now' = now + adv
                /\ updateDisplay
                /\ notification' = "Expense added successfully!"

\* expenses.find(e => e.id === id): the index of the first match, 0 for none
findIndexById(exps, id) ==
    IF \E i \in 1..Len(exps) : exps[i].id = id
    THEN CHOOSE i \in 1..Len(exps) :
            /\ exps[i].id = id
            /\ \A j \in 1..(i - 1) : exps[j].id # id
    ELSE 0

\* expenses.filter(e => e.id !== id)
filterOutId(exps, id) == SelectSeq(exps, LAMBDA e : e.id # id)

\* deleteExpense written with findIndex and splice and no early return: for
\* an id that is not stored, splice(-1, 1) removes the last record
deleteExpenseSplice(id, confirmed) ==
    LET found == findIndexById(expenses, id)
        at == IF found = 0 THEN Len(expenses) ELSE found
        event == [op |-> "delete", id |-> id, confirmed |-> confirmed,
                  before |-> Len(expenses)]
    IN  /\ lastEvent' = event
        /\ UNCHANGED <<now, tz>>
        /\ expenses' = [i \in 1..(IF at = 0 THEN 0 ELSE Len(expenses) - 1) |->
                           IF i < at THEN expenses[i] ELSE expenses[i + 1]]
        /\ updateDisplay
        /\ notification' = "Expense deleted"

\* window.deleteExpense(id); confirmed is the user's answer to confirm()
deleteExpense(id, confirmed) ==
    LET found == findIndexById(expenses, id)
        event == [op |-> "delete", id |-> id, confirmed |-> confirmed,
                  before |-> Len(expenses)]
    IN  /\ lastEvent' = event
        /\ UNCHANGED <<now, tz>>
        /\ IF found = 0
           THEN /\ notification' = "Error: Expense not found"
                /\ UNCHANGED <<expenses, totalAmount, expenseList>>
           ELSE IF ~confirmed
           THEN UNCHANGED <<expenses, totalAmount, expenseList, notification>>
           ELSE /\ expenses' = expensesAfterDisplay(filterOutId(expenses, id))
                /\ IF Len(expenses') < Len(expenses)
                   THEN /\ updateDisplay
                        /\ notification' = "Expense deleted"
                   ELSE /\ UNCHANGED <<totalAmount, expenseList>>
                        /\ notification' = "Failed to delete expense"

\* clearAll that empties the array and does not call updateDisplay
clearAllNoRefresh(confirmed) ==
    LET event == [op |-> "clear", id |-> 0, confirmed |-> confirmed,
                  before |-> Len(expenses)]
    IN  /\ lastEvent' = event
        /\ UNCHANGED <<now, tz>>
        /\ IF confirmed
           THEN /\ expenses' = <<>>
                /\ UNCHANGED <<totalAmount, expenseList>>
                /\ notification' = "All expenses cleared"
           ELSE UNCHANGED <<expenses, totalAmount, expenseList, notification>>

\* window.expenseTracker.clearAll(); confirmed is the answer to confirm()
clearAll(confirmed) ==
    LET event == [op |-> "clear", id |-> 0, confirmed |-> confirmed,
                  before |-> Len(expenses)]
    IN  /\ lastEvent' = event
        /\ UNCHANGED <<now, tz>>
        /\ IF confirmed
           THEN /\ expenses' = <<>>
                /\ updateDisplay
                /\ notification' = "All expenses cleared"
           ELSE UNCHANGED <<expenses, totalAmount, expenseList, notification>>

\* the largest and the smallest of a non-empty set of cents
MaxOf(S) == CHOOSE m \in S : \A x \in S : x <= m
MinOf(S) == CHOOSE m \in S : \A x \in S : m <= x

\* getStatistics() at clock t.  The average is kept as the quotient
\* total / count, not divided out.
getStatistics(exps, t, z) ==
    LET amounts == {exps[i].amount.cents : i \in 1..Len(exps)}
        todays == SelectSeq(exps, LAMBDA e : formatDate(e.date, t, z).label = "Today")
    IN  [totalExpenses |-> Len(exps),
         totalAmount |-> calculateTotal(exps),
         averageExpense |-> IF Len(exps) > 0
                            THEN <<calculateTotal(exps), Len(exps)>>
                            ELSE <<Fin(0), 1>>,
         highestExpense |-> IF Len(exps) > 0 THEN Fin(MaxOf(amounts)) ELSE Fin(0),
         lowestExpense |-> IF Len(exps) > 0 THEN Fin(MinOf(amounts)) ELSE Fin(0),
         todayExpenses |-> Len(todays),
         todayTotal |-> reduceTotal(todays, Fin(0))]

\* the setInterval callback: logs getStatistics() when there are records;
\* it assigns nothing
StatisticsTimer ==
    /\ lastEvent' = [op |-> "timer", id |-> 0, confirmed |-> FALSE,
                     before |-> Len(expenses)]
    /\ UNCHANGED <<expenses, now, tz, totalAmount, expenseList, notification>>

\* window.expenseTracker.getStats(): returns getStatistics()
getStats ==
    /\ lastEvent' = [op |-> "getStats", id |-> 0, confirmed |-> FALSE,
                     before |-> Len(expenses)]
    /\ UNCHANGED <<expenses, now, tz, totalAmount, expenseList, notification>>

\* window.expenseTracker.exportData(): returns {expenses, stats, exportDate}
exportData ==
    /\ lastEvent' = [op |-> "exportData", id |-> 0, confirmed |-> FALSE,
                     before |-> Len(expenses)]
    /\ UNCHANGED <<expenses, now, tz, totalAmount, expenseList, notification>>

\* the snapshot exportData returns at clock t
exportSnapshot(exps, t, z) ==
    [expenses |-> exps, stats |-> getStatistics(exps, t, z), exportDate |-> toISOString(t)]

\* time passes between two events
StartNow == UnitsPerDay
MaxNow == StartNow + MaxTicks

Tick ==
    /\ now < MaxNow
    /\ now' = now + 1
    /\ UNCHANGED <<expenses, tz, totalAmount, expenseList, notification, lastEvent>>

----------------------------------------------------------------------------
(* The ledger: any sequence of submit, delete and clear events *)

Descriptions == {<<>>, <<" ", "a", " ">>}
Amounts == {NaN, Fin(450), Fin(1200)}
Dates == {NoDate, 0, 1, 2}
\* how far the clock may advance inside one handler
ClockSteps(t) == {d \in {0, 1} : t + d <= MaxNow}

\* DOMContentLoaded: expenses = [], updateDisplay()
Init ==
    /\ expenses = <<>>
    /\ now = StartNow
    /\ tz \in TzOffsets
    /\ totalAmount = updateTotalDisplay(<<>>)
    /\ expenseList = displayExpensesList(<<>>, now, tz)
    /\ notification = ""
    /\ lastEvent = NoEvent

SubmitEvent ==
    /\ Len(expenses) < MaxExpenses
    /\ \E d \in Descriptions, a \in Amounts, dt \in Dates, adv \in ClockSteps(now) :
          Submit(d, a, dt, adv)

DeleteEvent ==
    \E id \in StartNow..MaxNow, confirmed \in BOOLEAN : deleteExpense(id, confirmed)

ClearEvent ==
    \E confirmed \in BOOLEAN : clearAll(confirmed)

Next ==
    \/ SubmitEvent
    \/ DeleteEvent
    \/ ClearEvent
    \/ StatisticsTimer
    \/ getStats
    \/ exportData
    \/ Tick

Spec == Init /\ [][Next]_vars

----------------------------------------------------------------------------
(* The validator on its boundary inputs: one submit to the empty ledger, at *)
(* any time of the day and in any timezone                                  *)

BoundaryDescriptions ==
    {<<>>, <<" ", " ">>, <<" ", "a", " ">>,
     Rep("a", MaxDescriptionLength), Rep("a", MaxDescriptionLength + 1),
     <<" ">> \o Rep("a", MaxDescriptionLength) \o <<" ">>}

BoundaryAmounts ==
    {NaN, PosInfinity, NegInfinity, Fin(-1), Fin(0), Fin(1), Fin(450),
     Fin(MaxAmountCents), Fin(MaxAmountCents + 1)}

BoundaryDates == {NoDate, 0, 1, 2, 3}

InitValidate ==
    /\ expenses = <<>>
    /\ now \in UnitsPerDay..(2 * UnitsPerDay - 1)
    /\ tz \in TzOffsets
    /\ totalAmount = updateTotalDisplay(<<>>)
    /\ expenseList = displayExpensesList(<<>>, now, tz)
    /\ notification = ""
    /\ lastEvent = NoEvent

ValidateEvent ==
    /\ expenses = <<>>
    /\ \E d \in BoundaryDescriptions, a \in BoundaryAmounts, dt \in BoundaryDates,
          adv \in {0, 1} :
          Submit(d, a, dt, adv)

NextValidate == ValidateEvent

SpecValidate == InitValidate /\ [][NextValidate]_vars

----------------------------------------------------------------------------
(* Claims *)

\* the sum of the amounts (in cents) of the records at the indices in S
RECURSIVE SumOver(_, _)
SumOver(exps, S) ==
    IF S = {} THEN 0
    ELSE LET i == CHOOSE k \in S : TRUE
         IN  exps[i].amount.cents + SumOver(exps, S \ {i})

SumOfAmounts(exps) == SumOver(exps, DOMAIN exps)

RejectionMessages ==
    {"Please enter a description", "Description too long (max 100 characters)",
     "Please enter a valid amount greater than 0", "Amount is too large",
     "Please select a date", "Date cannot be in the future"}

\* C1: in every reachable state calculateTotal returns the arithmetic sum of
\* the amounts of exactly the records now in expenses, and 0 when there are
\* none.
C1_TotalIsSum ==
    /\ calculateTotal(expenses) = Fin(SumOfAmounts(expenses))
    /\ expenses = <<>> => calculateTotal(expenses) = Fin(0)

\* C1 witness: a record was deleted from a ledger of two, and the total is
\* the amount of the record that is left.
C1_Witness ==
    /\ lastEvent.op = "delete"
    /\ lastEvent.before = 2
    /\ Len(expenses) = 1
    /\ calculateTotal(expenses) = Fin(1200)

\* C2 (as claimed): no two records of expenses have the same id.
C2_UniqueIds ==
    \A i, j \in 1..Len(expenses) : i # j => expenses[i].id # expenses[j].id

\* C3: a submit that validateExpense rejects, and a deleteExpense whose id
\* matches no record, leave expenses (contents and order) and the total as
\* they were.
C3_FailedLeavesLedger ==
    [][LET untouched ==
               /\ expenses' = expenses
               /\ calculateTotal(expenses') = calculateTotal(expenses)
           deleteNotFound ==
               /\ lastEvent'.op = "delete"
               /\ \A i \in 1..Len(expenses) : expenses[i].id # lastEvent'.id
               /\ deleteExpense(lastEvent'.id, lastEvent'.confirmed)
           submitRejected ==
               /\ lastEvent'.op = "submit"
               /\ notification' \in RejectionMessages
               /\ \E d \in Descriptions, a \in Amounts, dt \in Dates, adv \in {0, 1} :
                     /\ validateExpense(trim(d), a, dt, now, tz) = notification'
                     /\ Submit(d, a, dt, adv)
       IN  untouched \/ ~(deleteNotFound \/ submitRejected)]_vars

\* C3 witness: the last event was a delete of an id that no record of the
\* non-empty ledger has, reported as not found.
C3_Witness ==
    /\ lastEvent.op = "delete"
    /\ notification = "Error: Expense not found"
    /\ expenses # <<>>
    /\ lastEvent.before = Len(expenses)
    /\ \A i \in 1..Len(expenses) : expenses[i].id # lastEvent.id

\* exps without its element at index k
RemoveAt(exps, k) ==
    [i \in 1..(Len(exps) - 1) |-> IF i < k THEN exps[i] ELSE exps[i + 1]]

\* C4 (as claimed): a confirmed deleteExpense(id) of a stored id removes the
\* record found for id and only that one: every other record stays, in the
\* same order.
C4_DeleteRemovesOne ==
    [][(/\ lastEvent'.op = "delete"
        /\ findIndexById(expenses, lastEvent'.id) # 0
        /\ deleteExpense(lastEvent'.id, TRUE))
       => expenses' = RemoveAt(expenses, findIndexById(expenses, lastEvent'.id))]_vars


\* the rejection reason a notification stands for
ReasonOf(message) ==
    CASE message = "Please enter a description" -> "EmptyDescription"
      [] message = "Description too long (max 100 characters)" -> "DescriptionTooLong"
      [] message = "Please enter a valid amount greater than 0" -> "InvalidAmount"
      [] message = "Amount is too large" -> "AmountTooLarge"
      [] message = "Please select a date" -> "MissingDate"
      [] message = "Date cannot be in the future" -> "FutureDate"
      [] message = "Expense added successfully!" -> "Accepted"
      [] OTHER -> "None"

\* the rules as claimed, in their order: the first that fails, or Accepted
ClaimedReason(description, amount, date, t, z) ==
    IF Len(description) = 0 THEN "EmptyDescription"
    ELSE IF Len(description) > 100 THEN "DescriptionTooLong"
    ELSE IF ~(amount.kind = "finite" /\ amount.cents > 0) THEN "InvalidAmount"
    ELSE IF amount.cents > 99999999 THEN "AmountTooLarge"
    ELSE IF date = NoDate THEN "MissingDate"
    ELSE IF date > localDay(t, z) THEN "FutureDate"
    ELSE "Accepted"

\* C5 (as claimed): for every input the submit reports the first rule that
\* fails in the order EmptyDescription, DescriptionTooLong, InvalidAmount,
\* AmountTooLarge, MissingDate, FutureDate, or accepts; a NaN, non-finite,
\* zero or negative amount is InvalidAmount.  (Stated for the dates other
\* than the local tomorrow, the boundary of the date rule itself.)
C5_FirstFailingRule ==
    [][\A d \in BoundaryDescriptions, a \in BoundaryAmounts,
          dt \in BoundaryDates \ {localDay(now, tz) + 1}, adv \in {0, 1} :
          Submit(d, a, dt, adv)
          => ReasonOf(notification') = ClaimedReason(trim(d), a, dt, now, tz)]_vars

ValidDescriptions == {d \in BoundaryDescriptions : Len(trim(d)) \in 1..100}
ValidAmounts == {a \in BoundaryAmounts : a.kind = "finite" /\ a.cents \in 1..99999999}

\* C6 (as claimed): with a valid description and amount, a submit is accepted
\* exactly when its date is today's local calendar day or earlier; a later
\* date is rejected with FutureDate and expenses is unchanged, at any time of
\* day and in any timezone.
C6_FutureDateRejected ==
    [][\A d \in ValidDescriptions, a \in ValidAmounts,
          dt \in BoundaryDates \ {NoDate}, adv \in {0, 1} :
          Submit(d, a, dt, adv)
          => IF dt <= localDay(now, tz)
             THEN ReasonOf(notification') = "Accepted"
             ELSE /\ ReasonOf(notification') = "FutureDate"
                  /\ expenses' = expenses]_vars

\* the order claimed for the list: each record, taken in insertion order, is
\* put in front of the first record whose date is not later than its own
RECURSIVE ClaimedInsert(_, _)
ClaimedInsert(s, e) ==
    IF s = <<>> THEN <<e>>
    ELSE IF Head(s).date <= e.date THEN <<e>> \o s
    ELSE <<Head(s)>> \o ClaimedInsert(Tail(s), e)

RECURSIVE ClaimedOrder(_, _)
ClaimedOrder(sorted, rest) ==
    IF rest = <<>> THEN sorted
    ELSE ClaimedOrder(ClaimedInsert(sorted, Head(rest)), Tail(rest))

\* what an item of the rendered list shows of its record
Shown(items) ==
    [i \in 1..Len(items) |-> <<items[i].id, items[i].description, items[i].amount>>]

ShownOf(exps) ==
    [i \in 1..Len(exps) |->
        <<exps[i].id, exps[i].description, toFixed2(exps[i].amount)>>]

\* C7 (as claimed): the displayed list is ordered by date descending, and of
\* two records with the same date the one added later comes first.
C7_LaterAddedFirst ==
    Shown(expenseList) = ShownOf(ClaimedOrder(<<>>, expenses))

\* the boundary descriptions: 100 and 101 characters once trimmed
Descriptions100 == {d \in BoundaryDescriptions : Len(trim(d)) = 100}
Descriptions101 == {d \in BoundaryDescriptions : Len(trim(d)) = 101}

\* a submit of (d, a, dt) with a date of today or earlier ends as expected
EndsAs(d, a, dt, expected) ==
    (dt # NoDate /\ dt <= localDay(now, tz))
    => \A adv \in {0, 1} :
          ReasonOf(notification') = expected \/ ~Submit(d, a, dt, adv)

\* C8: with the other fields valid, 999999.99 is accepted, 1000000.00 is
\* AmountTooLarge, 0 is InvalidAmount, a description of 100 characters is
\* accepted and one of 101 characters is DescriptionTooLong.
C8_Boundaries ==
    [][/\ \A d \in ValidDescriptions, dt \in BoundaryDates :
             /\ EndsAs(d, Fin(99999999), dt, "Accepted")
             /\ EndsAs(d, Fin(100000000), dt, "AmountTooLarge")
             /\ EndsAs(d, Fin(0), dt, "InvalidAmount")
       /\ \A a \in ValidAmounts, dt \in BoundaryDates :
             /\ \A d \in Descriptions100 : EndsAs(d, a, dt, "Accepted")
             /\ \A d \in Descriptions101 : EndsAs(d, a, dt, "DescriptionTooLong")]_vars

\* C8 witness: a record of 999999.99 with a description of 100 characters was
\* accepted and is stored.
C8_Witness ==
    \E i \in 1..Len(expenses) :
        /\ expenses[i].amount = Fin(99999999)
        /\ Len(expenses[i].description) = 100
        /\ notification = "Expense added successfully!"

ShowsEmpty ==
    /\ expenses = <<>>
    /\ totalAmount = <<"", 0, 0>>
    /\ expenseList = <<>>

\* C9 (as claimed): after clearAll, whatever the state before it, expenses is
\* empty, the total is 0 and the displayed list is empty.
C9_ClearEmpties ==
    lastEvent.op = "clear" => ShowsEmpty

\* C9 (amended): after a clearAll whose prompt the user confirmed, whatever
\* the state before it, expenses is empty, the total is 0 and the displayed
\* list is empty.
C9_ConfirmedClearEmpties ==
    (lastEvent.op = "clear" /\ lastEvent.confirmed) => ShowsEmpty

\* C9 witness: a confirmed clearAll ran on a ledger of two records.
C9_Witness ==
    /\ lastEvent.op = "clear"
    /\ lastEvent.confirmed
    /\ lastEvent.before = 2
    /\ expenses = <<>>

\* C10: whenever a handler has run to completion, the rendered total is the
\* total of the records now in expenses and the rendered list shows exactly
\* those records, in display order.
C10_DisplayIsCurrent ==
    /\ totalAmount = toFixed2(Fin(SumOfAmounts(expenses)))
    /\ Shown(expenseList) = ShownOf(sortedExpenses(expenses))

\* C10 witness: a submit added a second record and both are rendered.
C10_Witness ==
    /\ lastEvent.op = "submit"
    /\ lastEvent.before = 1
    /\ Len(expenses) = 2
    /\ Len(expenseList) = 2


ReadOperations == {"timer", "getStats", "exportData"}

\* C11: the read operations leave expenses as it was: the statistics timer,
\* getStats and exportData change no record, field or position, and the
\* sorted list and total computed inside a submit, a delete or a clear leave
\* the records that stay in their insertion order.
C11_ReadsLeaveLedger ==
    [][/\ lastEvent'.op \in ReadOperations => expenses' = expenses
       /\ (lastEvent'.op = "submit" /\ Len(expenses') > Len(expenses))
          => SubSeq(expenses', 1, Len(expenses)) = expenses
       /\ (lastEvent'.op = "delete" /\ Len(expenses') < Len(expenses))
          => expenses' = SelectSeq(expenses, LAMBDA e : e.id # lastEvent'.id)
       /\ lastEvent'.op \in {"load", "clear"}
          => expenses' = expenses \/ expenses' = <<>>]_vars

\* C11 witness: the statistics timer fired on a ledger of two records whose
\* display order is not their insertion order, and both were counted.
C11_Witness ==
    /\ lastEvent.op = "timer"
    /\ Len(expenses) = 2
    /\ sortedExpenses(expenses) # expenses
    /\ getStatistics(expenses, now, tz).totalExpenses = 2
    /\ exportSnapshot(expenses, now, tz).expenses = expenses

====
